---- MODULE Spec2Model ----
(***************************************************************************)
(* ComplianceLingo: the note editor of views/Notes.tsx (the Notes          *)
(* component) together with the remote row store it talks to.              *)
(*                                                                         *)
(* A handler of a React function component reads the state of the render   *)
(* in which it was created.  A handler that awaits the store therefore     *)
(* continues, after the response, with the values of `notes` and           *)
(* `editingNoteId` it captured when it was called; those captured values   *)
(* travel with the request in flight (fields snapNotes, snapEditing).      *)
(* setNotes(prev => ...) is the one form that reads the current value.     *)
(*                                                                         *)
(* Time is in milliseconds.  Tag strings are sequences of characters so    *)
(* that trim() is computed; titles and contents are opaque strings.        *)
(***************************************************************************)
EXTENDS Integers, Sequences, FiniteSets, TLC

\* ------------------------------------------------------------------ bounds
\* The clock stops advancing here (ms).
MaxTime == 2500
\* Requests in flight at one time.
MaxReqs == 2
\* Rows the store inserts on top of the seeded ones.
MaxCreates == 1
\* User actions (clicks, keystrokes) in one run.
MaxUser == 3
\* Tags in the edit buffer's list.
MaxTags == 3
\* Grounding chunks in one news response.
MaxChunks == 3
\* Questions in one answer of the AI service.
MaxQuestions == 2

\* --------------------------------------------------------------- constants
\* setTimeout(..., 1000)
Debounce == 1000
\* useState<string | null>(null): no note is open for edit
NoId == 0
\* Clock granularity: the largest amount of time one Tick lets pass.
Step == Debounce \div 2

Titles == {"", "G", "GD"}
Contents == {"", "x"}
\* What the user may type into the tag input: "s", " t", " ".
TagInputs == {<<"s">>, <<" ", "t">>, <<" ">>}

VARIABLES
    user,           \* App: the signed-in user's id
    notes,          \* App: Note[] (the local collection)
    loading,        \* Notes: loading flag of the list fetch
    fetchError,     \* Notes: TRUE when fetchError is non-null
    editingNoteId,  \* Notes: id of the note open for edit, or NoId
    editorTitle,    \* Notes: edit buffer
    editorContent,
    editorTags,
    tagInput,
    isSaving,
    timer,          \* the pending setTimeout of the save effect
    reqs,           \* store requests in flight, in the order issued
    store,          \* the remote table: id -> row
    nextId,         \* the store's next row id
    now,            \* Date.now()
    calls,          \* history: EditField calls of the current edit session
    issued,         \* history: updates issued in this session after its first call
    defused,        \* history: the last timeout cleared by the end of a session
    userOps,        \* history: user actions so far
    orphans,        \* store requests in flight issued by a Notes that has unmounted
    tagOp,          \* history: the last operation applied to the tag list
    chunks,         \* geminiService: the groundingChunks of the news response
    newsData,       \* News: data (NewsData | null)
    difficulty,     \* Quiz: the difficulty selected
    quizLoading,    \* Quiz: loading
    quizError,      \* Quiz: TRUE when error is non-null
    quizState,      \* Quiz: QuizState
    aiReqs,         \* requests to the AI service in flight
    isAiProcessing, \* Notes: isAiProcessing
    aiLast          \* history: how the last AI transform ended

\* What lives outside the Notes component and its store.
auxVars == <<orphans, tagOp, chunks, newsData, difficulty, quizLoading, quizError,
             quizState, aiReqs, isAiProcessing, aiLast>>

vars == <<user, notes, loading, fetchError, editingNoteId, editorTitle,
          editorContent, editorTags, tagInput, isSaving, timer, reqs, store,
          nextId, now, calls, issued, defused, userOps, auxVars>>

editorVars == <<editingNoteId, editorTitle, editorContent, editorTags, tagInput>>
histVars == <<calls, issued, defused>>

\* ----------------------------------------------------------------- helpers
Range(s) == {s[i] : i \in 1..Len(s)}

RECURSIVE SelectSeqBy(_, _)
\* Array.prototype.filter with the predicate given as the set of kept values
SelectSeqBy(s, keep) ==
    IF s = <<>> THEN <<>>
    ELSE IF Head(s) \in keep THEN <<Head(s)>> \o SelectSeqBy(Tail(s), keep)
         ELSE SelectSeqBy(Tail(s), keep)

RemoveAt(s, i) == SubSeq(s, 1, i - 1) \o SubSeq(s, i + 1, Len(s))

RECURSIVE TrimLeft(_)
TrimLeft(s) == IF s # <<>> /\ Head(s) = " " THEN TrimLeft(Tail(s)) ELSE s

RECURSIVE TrimRight(_)
TrimRight(s) ==
    IF s # <<>> /\ s[Len(s)] = " " THEN TrimRight(SubSeq(s, 1, Len(s) - 1)) ELSE s

\* String.prototype.trim
Trim(s) == TrimRight(TrimLeft(s))

Buf(t, c, g) == [title |-> t, content |-> c, tags |-> g]
CurBuf == Buf(editorTitle, editorContent, editorTags)
EmptyBuf == Buf("", "", <<>>)

\* interface Note (createdAt is not modelled: nothing here reads it; the
\* store's creation order is the order of its ids)
Note(id, t, c, g, f, m) ==
    [id |-> id, title |-> t, content |-> c, tags |-> g, isFavorite |-> f,
     lastModified |-> m]

NoRow == [user_id |-> "", title |-> "", content |-> "", tags |-> <<>>,
          is_favorite |-> FALSE, updated_at |-> 0]
Row(u, t, c, g, f, m) ==
    [user_id |-> u, title |-> t, content |-> c, tags |-> g, is_favorite |-> f,
     updated_at |-> m]

MaxId == 3 + MaxCreates
Ids == 1..MaxId

\* The table as the session finds it: two notes of u1, one of u2.
SeedStore ==
    [i \in Ids |->
        CASE i = 1 -> Row("u1", "G", "", <<>>, FALSE, 0)
          [] i = 2 -> Row("u1", "", "x", <<<<"t">>>>, FALSE, 0)
          [] i = 3 -> Row("u2", "G", "x", <<>>, FALSE, 0)
          [] OTHER -> NoRow]

HasRow(i) == store[i] # NoRow

\* item => ({ id, title, content, tags, isFavorite, lastModified })
MapRow(i, r) == Note(i, r.title, r.content, r.tags, r.is_favorite, r.updated_at)

RECURSIVE RowsDesc(_, _)
\* .select('*').eq('user_id', u).order('created_at', {ascending: false})
RowsDesc(u, i) ==
    IF i = 0 THEN <<>>
    ELSE IF store[i] # NoRow /\ store[i].user_id = u
         THEN <<MapRow(i, store[i])>> \o RowsDesc(u, i - 1)
         ELSE RowsDesc(u, i - 1)

\* notes.find(n => n.id === id) succeeds
InNotes(ns, id) == \E k \in 1..Len(ns) : ns[k].id = id
Find(ns, id) == ns[CHOOSE k \in 1..Len(ns) : ns[k].id = id]

\* notes.filter(n => n.id !== id)
FilterOut(ns, id) == SelectSeqBy(ns, {n \in Range(ns) : n.id # id})

\* notes.map(n => n.id === id ? { ...n, isFavorite: f } : n)
MapFavorite(ns, id, f) ==
    [k \in 1..Len(ns) |-> IF ns[k].id = id THEN [ns[k] EXCEPT !.isFavorite = f] ELSE ns[k]]

\* The reconciliation guarded by the open note: a response for a note that is
\* no longer the one open is dropped.
MapSavedIfOpen(ns, id, b, m) ==
    [k \in 1..Len(ns) |->
        IF ns[k].id = id /\ id = editingNoteId
        THEN [ns[k] EXCEPT !.title = b.title, !.content = b.content,
                           !.tags = b.tags, !.lastModified = m]
        ELSE ns[k]]

\* prev.map(n => n.id === id ? { ...n, title, content, tags, lastModified } : n)
MapSaved(ns, id, b, m) ==
    [k \in 1..Len(ns) |->
        IF ns[k].id = id
        THEN [ns[k] EXCEPT !.title = b.title, !.content = b.content,
                           !.tags = b.tags, !.lastModified = m]
        ELSE ns[k]]

\* A request in flight.  st: "sent" (the store has not answered), "ok", "err".
\* uid is the user.id the handler read; data is the row (or rows) of the answer.
Req(kind, uid, id, val, buf, at, sn, se) ==
    [kind |-> kind, st |-> "sent", uid |-> uid, id |-> id, val |-> val, buf |-> buf,
     at |-> at, snapNotes |-> sn, snapEditing |-> se, data |-> <<>>]

\* useEffect(() => { fetchNotes() }, [user.id, setNotes]): the list request
FetchReq(u) == Req("fetch", u, NoId, FALSE, EmptyBuf, 0, <<>>, NoId)

NoTimer == [on |-> FALSE, id |-> NoId, buf |-> EmptyBuf, due |-> 0]

\* The effect without the buffer among its dependencies: a timeout that is
\* running for the note is left to run, with the buffer it was set with.
SaveEffectStale(id, buf) ==
    IF id = NoId THEN NoTimer
    ELSE IF timer.on /\ timer.id = id THEN timer
         ELSE [on |-> TRUE, id |-> id, buf |-> buf, due |-> now + Debounce]

\* The save effect, run after a render in which one of its dependencies
\* changed: the previous timeout is cleared (cleanup) and, if a note is open,
\* a new one is set that holds this render's id and buffer.
SaveEffect(id, buf) ==
    IF id = NoId THEN NoTimer
    ELSE [on |-> TRUE, id |-> id, buf |-> buf, due |-> now + Debounce]

\* No tag operation yet.
NoTagOp == [kind |-> "none", arg |-> <<>>, before |-> <<>>]

\* useState<NewsData | null>(null) of News (the news items are not modelled)
NoData == [loaded |-> FALSE, sources |-> <<>>]

\* useState<QuizState>({...}) of Quiz, and what reset() sets
NoQuiz == [isActive |-> FALSE, score |-> 0, currentQuestionIndex |-> 0,
           questions |-> <<>>, showResults |-> FALSE, answers |-> <<>>]

\* Nothing has happened outside Notes: no news fetched, the quiz at its menu.
AuxInit ==
    /\ orphans = <<>>
    /\ tagOp = NoTagOp
    /\ chunks = <<>>
    /\ newsData = NoData
    /\ difficulty = "Medium"
    /\ quizLoading = FALSE
    /\ quizError = FALSE
    /\ quizState = NoQuiz
    /\ aiReqs = <<>>
    /\ isAiProcessing = FALSE
    /\ aiLast = "none"

\* ------------------------------------------------------------------- Init
\* Notes has just mounted for u1: the mount effect has set loading and
\* issued the list request.
MountInit ==
    /\ user = "u1"
    /\ notes = <<>>
    /\ loading = TRUE
    /\ fetchError = FALSE
    /\ editingNoteId = NoId
    /\ editorTitle = ""
    /\ editorContent = ""
    /\ editorTags = <<>>
    /\ tagInput = <<>>
    /\ isSaving = FALSE
    /\ timer = NoTimer
    /\ reqs = <<FetchReq("u1")>>
    /\ store = SeedStore
    /\ nextId = 4
    /\ now = 0
    /\ calls = <<>>
    /\ issued = <<>>
    /\ defused = NoTimer
    /\ userOps = 0

Init == MountInit /\ AuxInit

\* ------------------------------------------------------------ edit session
\* One more action of the user.
UserStep == userOps < MaxUser /\ userOps' = userOps + 1

\* A new edit session begins (or the current one ends): the histories of the
\* session are cleared.
ResetHist ==
    /\ calls' = <<>>
    /\ issued' = <<>>
    /\ defused' = IF timer.on /\ editingNoteId' # editingNoteId THEN timer ELSE defused

\* An EditField call that changed the buffer to b.
RecordCall(b) ==
    /\ calls' = Append(calls, [at |-> now, buf |-> b])
    /\ UNCHANGED <<issued, defused>>

\* openNote(note).  All four setters are batched into one render.  The effect
\* runs again iff a dependency differs (Object.is): strings by value, the
\* tags array by identity.  sameArray says whether note.tags is the very
\* array the buffer already holds, which is possible only when the two are
\* equal by value.
OpenNoteWith(n, sameArray) ==
    LET b == Buf(n.title, n.content, n.tags)
        unchanged == /\ editingNoteId = n.id
                     /\ b = CurBuf
                     /\ sameArray
    IN  /\ editingNoteId' = n.id
        /\ editorTitle' = n.title
        /\ editorContent' = n.content
        /\ editorTags' = n.tags
        /\ tagInput' = <<>>
        /\ IF unchanged
           THEN UNCHANGED <<timer, calls, issued, defused>>
           ELSE timer' = SaveEffect(n.id, b) /\ ResetHist

\* onClick={() => openNote(note)} on a card of the grid, which is rendered
\* when the list is not loading.
OpenNote ==
    /\ UserStep
    /\ ~loading
    /\ \E k \in 1..Len(notes), sameArray \in BOOLEAN :
          OpenNoteWith(notes[k], sameArray)
    /\ UNCHANGED <<auxVars, user, notes, loading, fetchError, isSaving, reqs, store, nextId, now>>

\* closeNote() with an effect that returns no cleanup: the timeout stays.
CloseNoteKeepsTimer ==
    /\ editingNoteId' = NoId
    /\ UNCHANGED <<timer, editorTitle, editorContent, editorTags, tagInput>>
    /\ IF editingNoteId = NoId THEN UNCHANGED histVars ELSE ResetHist

\* closeNote(): setEditingNoteId(null); the effect's cleanup clears the timer
\* and the effect returns early.
CloseNoteEffects ==
    /\ editingNoteId' = NoId
    /\ timer' = SaveEffect(NoId, CurBuf)
    /\ UNCHANGED <<editorTitle, editorContent, editorTags, tagInput>>
    /\ IF editingNoteId = NoId THEN UNCHANGED histVars ELSE ResetHist

\* The backdrop or the X button of the modal.
CloseNote ==
    /\ UserStep
    /\ editingNoteId # NoId
    /\ CloseNoteEffects
    /\ UNCHANGED <<auxVars, user, notes, loading, fetchError, isSaving, reqs, store, nextId, now>>

\* onChange={(e) => setEditorTitle(e.target.value)}
EditTitle ==
    /\ UserStep
    /\ editingNoteId # NoId
    /\ \E v \in Titles \ {editorTitle} :
          /\ editorTitle' = v
          /\ timer' = SaveEffect(editingNoteId, Buf(v, editorContent, editorTags))
          /\ RecordCall(Buf(v, editorContent, editorTags))
    /\ UNCHANGED <<auxVars, user, notes, loading, fetchError, editingNoteId, editorContent,
                   editorTags, tagInput, isSaving, reqs, store, nextId, now>>

\* onChange={(e) => setEditorContent(e.target.value)}
EditContent ==
    /\ UserStep
    /\ editingNoteId # NoId
    /\ \E v \in Contents \ {editorContent} :
          /\ editorContent' = v
          /\ timer' = SaveEffect(editingNoteId, Buf(editorTitle, v, editorTags))
          /\ RecordCall(Buf(editorTitle, v, editorTags))
    /\ UNCHANGED <<auxVars, user, notes, loading, fetchError, editingNoteId, editorTitle,
                   editorTags, tagInput, isSaving, reqs, store, nextId, now>>

\* onChange={(e) => setTagInput(e.target.value)}
TypeTag ==
    /\ UserStep
    /\ editingNoteId # NoId
    /\ \E raw \in TagInputs \ {tagInput} : tagInput' = raw
    /\ UNCHANGED <<auxVars, user, notes, loading, fetchError, editingNoteId, editorTitle,
                   editorContent, editorTags, isSaving, timer, reqs, store, nextId,
                   now, calls, issued, defused>>

\* handleAddTag without `!editorTags.includes(val)`.
AddTagUnchecked(tags, input) ==
    LET val == Trim(input)
    IN  IF val # <<>> THEN Append(tags, val) ELSE tags

\* The tag list after Enter in the tag input.
AddTag(tags, input) ==
    LET val == Trim(input)
    IN  IF val # <<>> /\ val \notin Range(tags) THEN Append(tags, val) ELSE tags

\* handleAddTag on Enter with a value that is added ([...editorTags, val] is
\* a new array: the effect runs again).  Enter on an empty or repeated value
\* sets no state.
HandleAddTag ==
    /\ UserStep
    /\ editingNoteId # NoId
    /\ AddTag(editorTags, tagInput) # editorTags
    /\ editorTags' = AddTag(editorTags, tagInput)
    /\ tagInput' = <<>>
    /\ timer' = SaveEffect(editingNoteId, Buf(editorTitle, editorContent, editorTags'))
    /\ RecordCall(Buf(editorTitle, editorContent, editorTags'))
    /\ UNCHANGED <<auxVars, user, notes, loading, fetchError, editingNoteId, editorTitle,
                   editorContent, isSaving, reqs, store, nextId, now>>

\* removeTag as tags.splice(tags.indexOf(tag), 1): indexOf is -1 for a tag
\* that is not there, and splice(-1, 1) removes the last element.
RemoveTagSplice(tags, tag) ==
    IF tags = <<>> THEN tags
    ELSE IF tag \in Range(tags)
         THEN RemoveAt(tags, CHOOSE i \in 1..Len(tags) :
                                /\ tags[i] = tag
                                /\ \A j \in 1..(i - 1) : tags[j] # tag)
         ELSE SubSeq(tags, 1, Len(tags) - 1)

\* editorTags.filter(t => t !== tag)
RemoveTagFrom(tags, tag) == SelectSeqBy(tags, Range(tags) \ {tag})

\* removeTag(tag), from the X of a tag chip of the modal
RemoveTag ==
    /\ UserStep
    /\ editingNoteId # NoId
    /\ \E tag \in Range(editorTags) :
          /\ editorTags' = RemoveTagFrom(editorTags, tag)
          /\ timer' = SaveEffect(editingNoteId, Buf(editorTitle, editorContent, editorTags'))
          /\ RecordCall(Buf(editorTitle, editorContent, editorTags'))
    /\ UNCHANGED <<auxVars, user, notes, loading, fetchError, editingNoteId, editorTitle,
                   editorContent, tagInput, isSaving, reqs, store, nextId, now>>

\* ------------------------------------------------------------ debounced save
\* The callback under setInterval instead of setTimeout: it is due again
\* Debounce later.
TimerFireEvery ==
    /\ UNCHANGED userOps
    /\ timer.on
    /\ timer.due <= now
    /\ Len(reqs) < MaxReqs
    /\ isSaving' = TRUE
    /\ reqs' = Append(reqs, Req("save", user, timer.id, FALSE, timer.buf, now, <<>>, NoId))
    /\ timer' = [timer EXCEPT !.due = now + Debounce]
    /\ issued' = IF calls # <<>>
                 THEN Append(issued, [at |-> now, id |-> timer.id, buf |-> timer.buf])
                 ELSE issued
    /\ UNCHANGED <<auxVars, user, notes, loading, fetchError, editorVars, store, nextId, now,
                   calls, defused>>

\* The timeout callback up to its await: setIsSaving(true) and the update
\* request, built from the values the effect's render held.
TimerFire ==
    /\ UNCHANGED userOps
    /\ timer.on
    /\ timer.due <= now
    /\ Len(reqs) < MaxReqs
    /\ isSaving' = TRUE
    /\ reqs' = Append(reqs, Req("save", user, timer.id, FALSE, timer.buf, now, <<>>, NoId))
    /\ timer' = NoTimer
    /\ issued' = IF calls # <<>>
                 THEN Append(issued, [at |-> now, id |-> timer.id, buf |-> timer.buf])
                 ELSE issued
    /\ UNCHANGED <<auxVars, user, notes, loading, fetchError, editorVars, store, nextId, now, calls, defused>>

\* Time passes, by at most Step and not beyond a timeout that is due.
Tick ==
    /\ UNCHANGED userOps
    /\ now < MaxTime
    /\ ~timer.on \/ timer.due > now
    /\ now' = IF timer.on /\ timer.due < now + Step THEN timer.due ELSE now + Step
    /\ UNCHANGED <<auxVars, user, notes, loading, fetchError, editorVars, isSaving, timer, reqs,
                   store, nextId, calls, issued, defused>>
\* ----------------------------------------------------------- user requests
CreatesInFlight == Cardinality({i \in 1..Len(reqs) : reqs[i].kind = "create" /\ reqs[i].st = "sent"})

\* An optimistic create: a placeholder note is shown before the store answers.
HandleCreateNoteOptimistic ==
    /\ UserStep
    /\ Len(reqs) < MaxReqs
    /\ nextId + CreatesInFlight <= MaxId
    /\ notes' = <<Note(nextId + CreatesInFlight, "", "", <<>>, FALSE, now)>> \o notes
    /\ reqs' = Append(reqs, Req("create", user, NoId, FALSE, EmptyBuf, 0, notes, NoId))
    /\ UNCHANGED <<auxVars, user, loading, fetchError, editorVars, isSaving, timer,
                   store, nextId, now, calls, issued, defused>>

\* handleCreateNote up to its await: the insert request.  The handler keeps
\* the `notes` of the render it was created in.
HandleCreateNote ==
    /\ UserStep
    /\ Len(reqs) < MaxReqs
    /\ nextId + CreatesInFlight <= MaxId
    /\ reqs' = Append(reqs, Req("create", user, NoId, FALSE, EmptyBuf, 0, notes, NoId))
    /\ UNCHANGED <<auxVars, user, notes, loading, fetchError, editorVars, isSaving, timer,
                   store, nextId, now, calls, issued, defused>>

\* An optimistic delete: the note leaves the collection before the store answers.
HandleDeleteNoteOptimistic ==
    /\ UserStep
    /\ ~loading
    /\ Len(reqs) < MaxReqs
    /\ \E k \in 1..Len(notes) :
          /\ notes' = FilterOut(notes, notes[k].id)
          /\ reqs' = Append(reqs, Req("delete", user, notes[k].id, FALSE, EmptyBuf, 0,
                                      notes, editingNoteId))
    /\ UNCHANGED <<auxVars, user, loading, fetchError, editorVars, isSaving, timer,
                   store, nextId, now, calls, issued, defused>>

\* handleDeleteNote(id) (confirmed) up to its await: the delete request.  The
\* handler keeps the `notes` and the `editingNoteId` of its render.
HandleDeleteNote ==
    /\ UserStep
    /\ ~loading
    /\ Len(reqs) < MaxReqs
    /\ \E k \in 1..Len(notes) :
          reqs' = Append(reqs, Req("delete", user, notes[k].id, FALSE, EmptyBuf, 0,
                                   notes, editingNoteId))
    /\ UNCHANGED <<auxVars, user, notes, loading, fetchError, editorVars, isSaving, timer,
                   store, nextId, now, calls, issued, defused>>

\* The notes whose star is rendered: the cards of the grid and the open note.
Starred ==
    {n.id : n \in {m \in Range(notes) : ~loading \/ m.id = editingNoteId}}

\* toggleFavorite(id) up to its await: the optimistic update and the request.
ToggleFavorite ==
    /\ UserStep
    /\ Len(reqs) < MaxReqs
    /\ \E id \in Starred :
          LET updatedStatus == ~Find(notes, id).isFavorite
          IN  /\ notes' = MapFavorite(notes, id, updatedStatus)
              /\ reqs' = Append(reqs, Req("toggle", user, id, updatedStatus, EmptyBuf,
                                          0, notes, NoId))
    /\ UNCHANGED <<auxVars, user, loading, fetchError, editorVars, isSaving, timer, store,
                   nextId, now, calls, issued, defused>>

\* ---------------------------------------------------------------- the store
\* The table after request r has been carried out.
StoreAfter(r) ==
    CASE r.kind = "create" ->
            [store EXCEPT ![nextId] = Row(r.uid, "", "", <<>>, FALSE, now)]
      [] r.kind = "delete" -> [store EXCEPT ![r.id] = NoRow]
      [] r.kind = "toggle" /\ HasRow(r.id) -> [store EXCEPT ![r.id].is_favorite = r.val]
      [] r.kind = "save" /\ HasRow(r.id) ->
            [store EXCEPT ![r.id].title = r.buf.title, ![r.id].content = r.buf.content,
                          ![r.id].tags = r.buf.tags, ![r.id].updated_at = r.at]
      [] OTHER -> store

\* The rows the answer carries: the selected rows, or the inserted row.
AnswerOf(r) ==
    CASE r.kind = "fetch" -> RowsDesc(r.uid, MaxId)
      [] r.kind = "create" -> <<Note(nextId, "", "", <<>>, FALSE, now)>>
      [] OTHER -> <<>>

\* The store carries out a request and answers without error.
StoreOk ==
    /\ UNCHANGED userOps
    /\ \E i \in 1..Len(reqs) :
          /\ reqs[i].st = "sent"
          /\ reqs[i].kind = "create" => nextId <= MaxId
          /\ store' = StoreAfter(reqs[i])
          /\ nextId' = IF reqs[i].kind = "create" THEN nextId + 1 ELSE nextId
          /\ reqs' = [reqs EXCEPT ![i].st = "ok", ![i].data = AnswerOf(reqs[i])]
    /\ UNCHANGED <<auxVars, user, notes, loading, fetchError, editorVars, isSaving, timer, now,
                   calls, issued, defused>>

\* The store (or the network) answers with an error; the table is untouched.
StoreErr ==
    /\ UNCHANGED userOps
    /\ \E i \in 1..Len(reqs) :
          /\ reqs[i].st = "sent"
          /\ reqs' = [reqs EXCEPT ![i].st = "err"]
    /\ UNCHANGED <<auxVars, user, notes, loading, fetchError, editorVars, isSaving, timer,
                   store, nextId, now, calls, issued, defused>>

\* ------------------------------------------------------------- continuations
Answered(i, kind, st) == reqs[i].kind = kind /\ reqs[i].st = st

\* fetchNotes after the await, no error: setNotes(mappedNotes); finally
DeliverFetchOk ==
    /\ UNCHANGED userOps
    /\ \E i \in 1..Len(reqs) :
          /\ Answered(i, "fetch", "ok")
          /\ notes' = reqs[i].data
          /\ reqs' = RemoveAt(reqs, i)
    /\ loading' = FALSE
    /\ UNCHANGED <<auxVars, user, fetchError, editorVars, isSaving, timer, store, nextId, now,
                   calls, issued, defused>>

\* fetchNotes with a catch that only logs: no setFetchError.
DeliverFetchErrSilent ==
    /\ UNCHANGED userOps
    /\ \E i \in 1..Len(reqs) :
          /\ Answered(i, "fetch", "err")
          /\ reqs' = RemoveAt(reqs, i)
    /\ loading' = FALSE
    /\ UNCHANGED <<auxVars, user, notes, fetchError, editorVars, isSaving, timer, store,
                   nextId, now, calls, issued, defused>>

\* fetchNotes after the await, error: setFetchError(...); finally
DeliverFetchErr ==
    /\ UNCHANGED userOps
    /\ \E i \in 1..Len(reqs) :
          /\ Answered(i, "fetch", "err")
          /\ reqs' = RemoveAt(reqs, i)
    /\ fetchError' = TRUE
    /\ loading' = FALSE
    /\ UNCHANGED <<auxVars, user, notes, editorVars, isSaving, timer, store, nextId, now, calls,
                   issued, defused>>

\* setNotes([mappedNote, ...notes]) with the handler's own `notes`
CreatedNotes(mappedNote, snap) == <<mappedNote>> \o snap

\* handleCreateNote after the await, no error
DeliverCreateOk ==
    /\ UNCHANGED userOps
    /\ \E i \in 1..Len(reqs) :
          /\ Answered(i, "create", "ok")
          /\ notes' = CreatedNotes(reqs[i].data[1], reqs[i].snapNotes)
          /\ OpenNoteWith(reqs[i].data[1], FALSE)
          /\ reqs' = RemoveAt(reqs, i)
    /\ UNCHANGED <<auxVars, user, loading, fetchError, isSaving, store, nextId, now>>

\* handleCreateNote after the await, error: console.error and alert
DeliverCreateErr ==
    /\ UNCHANGED userOps
    /\ \E i \in 1..Len(reqs) :
          /\ Answered(i, "create", "err")
          /\ reqs' = RemoveAt(reqs, i)
    /\ UNCHANGED <<auxVars, user, notes, loading, fetchError, editorVars, isSaving, timer,
                   store, nextId, now, calls, issued, defused>>

\* setNotes(notes.filter(n => n.id !== id)) with the handler's own `notes`
DeletedNotes(snap, id) == FilterOut(snap, id)

\* if (editingNoteId === id) with the handler's own `editingNoteId`
DeleteCloses(snapEditing, id) == snapEditing = id

\* handleDeleteNote after the await, no error
DeliverDeleteOk ==
    /\ UNCHANGED userOps
    /\ \E i \in 1..Len(reqs) :
          /\ Answered(i, "delete", "ok")
          /\ notes' = DeletedNotes(reqs[i].snapNotes, reqs[i].id)
          /\ IF DeleteCloses(reqs[i].snapEditing, reqs[i].id)
             THEN CloseNoteEffects
             ELSE UNCHANGED <<editorVars, timer, calls, issued, defused>>
          /\ reqs' = RemoveAt(reqs, i)
    /\ UNCHANGED <<auxVars, user, loading, fetchError, isSaving, store, nextId, now>>

\* handleDeleteNote after the await, error: console.error and alert
DeliverDeleteErr ==
    /\ UNCHANGED userOps
    /\ \E i \in 1..Len(reqs) :
          /\ Answered(i, "delete", "err")
          /\ reqs' = RemoveAt(reqs, i)
    /\ UNCHANGED <<auxVars, user, notes, loading, fetchError, editorVars, isSaving, timer,
                   store, nextId, now, calls, issued, defused>>

\* toggleFavorite after the await, no error: nothing is set
DeliverToggleOk ==
    /\ UNCHANGED userOps
    /\ \E i \in 1..Len(reqs) :
          /\ Answered(i, "toggle", "ok")
          /\ reqs' = RemoveAt(reqs, i)
    /\ UNCHANGED <<auxVars, user, notes, loading, fetchError, editorVars, isSaving, timer,
                   store, nextId, now, calls, issued, defused>>

\* setNotes(notes.map(n => n.id === id ? {...n, isFavorite: !updatedStatus} : n))
\* with the handler's own `notes`
RevertedNotes(snap, id, updatedStatus) == MapFavorite(snap, id, ~updatedStatus)

\* toggleFavorite after the await, error: the revert
DeliverToggleErr ==
    /\ UNCHANGED userOps
    /\ \E i \in 1..Len(reqs) :
          /\ Answered(i, "toggle", "err")
          /\ notes' = RevertedNotes(reqs[i].snapNotes, reqs[i].id, reqs[i].val)
          /\ reqs' = RemoveAt(reqs, i)
    /\ UNCHANGED <<auxVars, user, loading, fetchError, editorVars, isSaving, timer, store,
                   nextId, now, calls, issued, defused>>

\* The timeout callback after the await, no error: setNotes(prev => ...); finally
DeliverSaveOk ==
    /\ UNCHANGED userOps
    /\ \E i \in 1..Len(reqs) :
          /\ Answered(i, "save", "ok")
          /\ notes' = MapSaved(notes, reqs[i].id, reqs[i].buf, now)
          /\ reqs' = RemoveAt(reqs, i)
    /\ isSaving' = FALSE
    /\ UNCHANGED <<auxVars, user, loading, fetchError, editorVars, timer, store, nextId, now,
                   calls, issued, defused>>

\* The callback without `if (error) throw error`: the collection is
\* reconciled whatever the store answered.
DeliverSaveErrReconciles ==
    /\ UNCHANGED userOps
    /\ \E i \in 1..Len(reqs) :
          /\ Answered(i, "save", "err")
          /\ notes' = MapSaved(notes, reqs[i].id, reqs[i].buf, now)
          /\ reqs' = RemoveAt(reqs, i)
    /\ isSaving' = FALSE
    /\ UNCHANGED <<auxVars, user, loading, fetchError, editorVars, timer, store, nextId, now,
                   calls, issued, defused>>

\* The timeout callback after the await, error: console.error; finally
DeliverSaveErr ==
    /\ UNCHANGED userOps
    /\ \E i \in 1..Len(reqs) :
          /\ Answered(i, "save", "err")
          /\ reqs' = RemoveAt(reqs, i)
    /\ isSaving' = FALSE
    /\ UNCHANGED <<auxVars, user, notes, loading, fetchError, editorVars, timer, store, nextId,
                   now, calls, issued, defused>>

\* ------------------------------------------------------------ what is shown
\* {fetchError && (... <Button onClick={() => window.location.reload()}>Retry)}
RetryOffered == fetchError

\* "No notes yet. Create one to start!"
EmptyStateShown == ~loading /\ Len(notes) = 0 /\ ~fetchError

\* {isSaving ? 'Saving...' : 'Auto-saved'} in the footer of the modal
ShowsSaving == editingNoteId # NoId /\ isSaving
ShowsSaved == editingNoteId # NoId /\ ~isSaving

\* ------------------------------------------------------------ authentication
\* useState<User | null>(null): nobody is signed in
NoUser == ""
Users == {"u1", "u2"}

\* {currentView === AppView.NOTES && <Notes ... user={user} />}, rendered
\* only past `if (!user) return <Login />`
Mounted == user # NoUser

\* handleLogout: supabase.auth.signOut() makes the auth listener run with no
\* session: setUser(null); setNotes([]).  App renders Login, so Notes
\* unmounts: the effect's cleanup clears the timeout and the component's
\* state is gone.  The requests it has in flight stay in flight.
SignOut ==
    /\ UserStep
    /\ Mounted
    /\ Len(orphans) + Len(reqs) <= MaxReqs
    /\ user' = NoUser
    /\ notes' = <<>>
    /\ orphans' = orphans \o reqs
    /\ reqs' = <<>>
    /\ timer' = NoTimer
    /\ loading' = FALSE
    /\ fetchError' = FALSE
    /\ editingNoteId' = NoId
    /\ editorTitle' = ""
    /\ editorContent' = ""
    /\ editorTags' = <<>>
    /\ tagInput' = <<>>
    /\ isSaving' = FALSE
    /\ calls' = <<>>
    /\ issued' = <<>>
    /\ UNCHANGED <<store, nextId, now, defused, tagOp, chunks, newsData, difficulty,
                   quizLoading, quizError, quizState, aiReqs,
                   isAiProcessing, aiLast>>

\* Login succeeds: the auth listener runs with the session of u: setUser(...).
\* Notes mounts and its effect sets loading and issues the list request of u.
\* App's `notes` is what it was.
SignIn ==
    /\ UserStep
    /\ ~Mounted
    /\ \E u \in Users :
          /\ user' = u
          /\ reqs' = <<FetchReq(u)>>
    /\ loading' = TRUE
    /\ fetchError' = FALSE
    /\ UNCHANGED <<auxVars, notes, editorVars, isSaving, timer, store, nextId, now,
                   calls, issued, defused>>

\* The store carries out a request of an unmounted Notes and answers.
OrphanStoreOk ==
    /\ UNCHANGED userOps
    /\ \E i \in 1..Len(orphans) :
          /\ orphans[i].st = "sent"
          /\ orphans[i].kind = "create" => nextId <= MaxId
          /\ store' = StoreAfter(orphans[i])
          /\ nextId' = IF orphans[i].kind = "create" THEN nextId + 1 ELSE nextId
          /\ orphans' = [orphans EXCEPT ![i].st = "ok", ![i].data = AnswerOf(orphans[i])]
    /\ UNCHANGED <<user, notes, loading, fetchError, editorVars, isSaving, timer, reqs,
                   now, calls, issued, defused, tagOp, chunks, newsData, difficulty,
                   quizLoading, quizError, quizState, aiReqs,
                   isAiProcessing, aiLast>>

\* The store answers a request of an unmounted Notes with an error.
OrphanStoreErr ==
    /\ UNCHANGED userOps
    /\ \E i \in 1..Len(orphans) :
          /\ orphans[i].st = "sent"
          /\ orphans' = [orphans EXCEPT ![i].st = "err"]
    /\ UNCHANGED <<user, notes, loading, fetchError, editorVars, isSaving, timer, reqs,
                   store, nextId, now, calls, issued, defused, tagOp, chunks,
                   newsData, difficulty, quizLoading, quizError, quizState, aiReqs,
                   isAiProcessing, aiLast>>

\* What the continuation of request r of an unmounted Notes sets: the setters
\* of the component's own state do nothing any more; setNotes is App's.
OrphanNotes(r) ==
    CASE r.kind = "fetch" /\ r.st = "ok" -> r.data
      [] r.kind = "create" /\ r.st = "ok" -> CreatedNotes(r.data[1], r.snapNotes)
      [] r.kind = "delete" /\ r.st = "ok" -> DeletedNotes(r.snapNotes, r.id)
      [] r.kind = "toggle" /\ r.st = "err" -> RevertedNotes(r.snapNotes, r.id, r.val)
      [] r.kind = "save" /\ r.st = "ok" -> MapSaved(notes, r.id, r.buf, now)
      [] OTHER -> notes

\* The continuation of a request of an unmounted Notes runs.
OrphanDeliver ==
    /\ UNCHANGED userOps
    /\ \E i \in 1..Len(orphans) :
          /\ orphans[i].st # "sent"
          /\ notes' = OrphanNotes(orphans[i])
          /\ orphans' = RemoveAt(orphans, i)
    /\ UNCHANGED <<user, loading, fetchError, editorVars, isSaving, timer, reqs, store,
                   nextId, now, calls, issued, defused, tagOp, chunks, newsData,
                   difficulty, quizLoading, quizError, quizState, aiReqs,
                   isAiProcessing, aiLast>>

\* ------------------------------------------------------------ specification
Next ==
    \/ OpenNote
    \/ CloseNote
    \/ EditTitle
    \/ EditContent
    \/ TypeTag
    \/ HandleAddTag
    \/ RemoveTag
    \/ TimerFire
    \/ Tick
    \/ HandleCreateNote
    \/ HandleDeleteNote
    \/ ToggleFavorite
    \/ StoreOk
    \/ StoreErr
    \/ DeliverFetchOk
    \/ DeliverFetchErr
    \/ DeliverCreateOk
    \/ DeliverCreateErr
    \/ DeliverDeleteOk
    \/ DeliverDeleteErr
    \/ DeliverToggleOk
    \/ DeliverToggleErr
    \/ DeliverSaveOk
    \/ DeliverSaveErr

Spec == Init /\ [][Next]_vars

\* The session in which users sign out and in, and create notes.
NextAuth ==
    \/ SignOut
    \/ SignIn
    \/ OrphanStoreOk
    \/ OrphanStoreErr
    \/ OrphanDeliver
    \/ Mounted /\ HandleCreateNote
    \/ StoreOk
    \/ StoreErr
    \/ DeliverFetchOk
    \/ DeliverFetchErr
    \/ DeliverCreateOk
    \/ DeliverCreateErr

SpecAuth == Init /\ [][NextAuth]_vars

\* The session in which the user only opens, edits and closes notes.
NextSaves ==
    \/ OpenNote
    \/ CloseNote
    \/ EditTitle
    \/ EditContent
    \/ TimerFire
    \/ Tick
    \/ StoreOk
    \/ StoreErr
    \/ DeliverFetchOk
    \/ DeliverFetchErr
    \/ DeliverSaveOk
    \/ DeliverSaveErr

SpecSaves == Init /\ [][NextSaves]_vars

\* The same with a store that does not fail.
NextOrder ==
    \/ OpenNote
    \/ CloseNote
    \/ EditTitle
    \/ EditContent
    \/ TimerFire
    \/ Tick
    \/ StoreOk
    \/ DeliverFetchOk
    \/ DeliverSaveOk

SpecOrder == Init /\ [][NextOrder]_vars

\* ------------------------------------------------------------ the tag list
\* What is typed into the tag input before Enter: "s", " s", "s ", "t", "S",
\* " ", "".
TagRaws == {<<"s">>, <<" ", "s">>, <<"s", " ">>, <<"t">>, <<"S">>, <<" ">>, <<>>}
\* The tags asked to be removed: "s", "t", "S", "u".
TagValues == {<<"s">>, <<"t">>, <<"S">>, <<"u">>}

\* The lists without duplicates of at most n of the tags s, t, S.
TagLists(n) ==
    {l \in UNION {[1..k -> {<<"s">>, <<"t">>, <<"S">>}] : k \in 0..n} :
        \A i, j \in 1..Len(l) : l[i] = l[j] => i = j}

\* A note is open, with some tag list without duplicates in the buffer.
InitTags ==
    /\ user = "u1"
    /\ store = SeedStore
    /\ notes = RowsDesc("u1", MaxId)
    /\ loading = FALSE
    /\ fetchError = FALSE
    /\ editingNoteId = 2
    /\ editorTitle = ""
    /\ editorContent = "x"
    /\ editorTags \in TagLists(MaxTags - 1)
    /\ tagInput = <<>>
    /\ isSaving = FALSE
    /\ timer = NoTimer
    /\ reqs = <<>>
    /\ nextId = 4
    /\ now = 0
    /\ calls = <<>>
    /\ issued = <<>>
    /\ defused = NoTimer
    /\ userOps = 0
    /\ AuxInit

\* handleAddTag on Enter, with raw in the tag input
ApplyAddTag ==
    /\ Len(editorTags) < MaxTags
    /\ \E raw \in TagRaws :
          /\ editorTags' = AddTag(editorTags, raw)
          /\ tagInput' = IF editorTags' # editorTags THEN <<>> ELSE raw
          /\ tagOp' = [kind |-> "add", arg |-> raw, before |-> editorTags]
    /\ UNCHANGED <<user, notes, loading, fetchError, editingNoteId, editorTitle,
                   editorContent, isSaving, timer, reqs, store, nextId, now, calls,
                   issued, defused, userOps, orphans, chunks, newsData, difficulty,
                   quizLoading, quizError, quizState, aiReqs,
                   isAiProcessing, aiLast>>

\* removeTag(tag)
ApplyRemoveTag ==
    /\ \E tag \in TagValues :
          /\ editorTags' = RemoveTagFrom(editorTags, tag)
          /\ tagOp' = [kind |-> "remove", arg |-> tag, before |-> editorTags]
    /\ UNCHANGED <<user, notes, loading, fetchError, editingNoteId, editorTitle,
                   editorContent, tagInput, isSaving, timer, reqs, store, nextId, now,
                   calls, issued, defused, userOps, orphans, chunks, newsData,
                   difficulty, quizLoading, quizError, quizState, aiReqs,
                   isAiProcessing, aiLast>>

NextTags ==
    \/ ApplyAddTag
    \/ ApplyRemoveTag

SpecTags == InitTags /\ [][NextTags]_vars

\* ------------------------------------------------------------------ news
\* chunk.web of a grounding chunk: a title and a uri, either of which may be
\* missing ("" here).
Webs ==
    {[title |-> t, uri |-> u] : t \in {"A", "B", "C"}, u \in {"uri1", "uri2"}}
        \cup {[title |-> "", uri |-> "uri1"], [title |-> "A", uri |-> ""]}

\* chunks.map(chunk => chunk.web).filter(web => web && web.uri && web.title)
RawSources(cs) == SelectSeqBy(cs, {w \in Range(cs) : w.uri # "" /\ w.title # ""})

\* uniqueSourcesMap.set(s.uri, s): a key that is there keeps its place and
\* gets the new value; a new key goes last.
MapSet(m, s) ==
    IF \E k \in 1..Len(m) : m[k].uri = s.uri
    THEN [m EXCEPT ![CHOOSE k \in 1..Len(m) : m[k].uri = s.uri] = s]
    ELSE Append(m, s)

RECURSIVE SetAll(_, _)
\* rawSources.forEach(s => uniqueSourcesMap.set(s.uri, s)), from the map m
SetAll(m, raw) == IF raw = <<>> THEN m ELSE SetAll(MapSet(m, Head(raw)), Tail(raw))

\* Array.from(uniqueSourcesMap.values())
UniqueSources(raw) == SetAll(<<>>, raw)

\* The response of the AI service carries some grounding chunks.
InitNews ==
    /\ MountInit
    /\ orphans = <<>>
    /\ tagOp = NoTagOp
    /\ chunks \in UNION {[1..k -> Webs] : k \in 0..MaxChunks}
    /\ newsData = NoData
    /\ difficulty = "Medium"
    /\ quizLoading = FALSE
    /\ quizError = FALSE
    /\ quizState = NoQuiz
    /\ aiReqs = <<>>
    /\ isAiProcessing = FALSE
    /\ aiLast = "none"

\* loadNews: fetchComplianceNews() and setData(newsData)
LoadNews ==
    /\ ~newsData.loaded
    /\ newsData' = [loaded |-> TRUE, sources |-> UniqueSources(RawSources(chunks))]
    /\ UNCHANGED <<user, notes, loading, fetchError, editorVars, isSaving, timer, reqs,
                   store, nextId, now, calls, issued, defused, userOps, orphans, tagOp,
                   chunks, difficulty, quizLoading, quizError, quizState, aiReqs,
                   isAiProcessing, aiLast>>

NextNews == LoadNews

SpecNews == InitNews /\ [][NextNews]_vars

\* ------------------------------------------------------------------ quiz
Difficulties == {"Easy", "Medium", "Hard"}
\* handleAnswer(idx) of one of the four options
Options == 0..3
\* answers: new Array(questions.length).fill(-1)
Unanswered == 0 - 1

\* A question as the AI service returns it: the model's own id (two questions
\* may get the same one, or "" for none) and the index of the correct option;
\* the texts are not modelled.
RawQuestions ==
    {[id |-> i, correctAnswerIndex |-> c] : i \in {"a", "b", ""}, c \in {0, 3}}

\* JSON.parse(text) as QuizQuestion[]: what the service may answer
AiQuizzes == UNION {[1..k -> RawQuestions] : k \in 0..MaxQuestions}

\* As AssignIds, with the id made of the time alone.
AssignIdsNoIndex(qs, t) == [i \in 1..Len(qs) |-> [qs[i] EXCEPT !.id = <<"q", t>>]]

\* questions.map((q, idx) => ({ ...q, id: `q-${Date.now()}-${idx}` }))
AssignIds(qs, t) == [i \in 1..Len(qs) |-> [qs[i] EXCEPT !.id = <<"q", t, i - 1>>]]

\* A call of the AI service.  sent: a request has gone to the service.
AiReq(kind, sent, st, ns, d) ==
    [kind |-> kind, sent |-> sent, st |-> st, context |-> ns, difficulty |-> d,
     data |-> <<>>]

\* generateQuizFromNotes(notes, difficulty) up to its await:
\* `if (notes.length === 0) return []` resolves with no request.
GenerateQuizFromNotes(ns, d) ==
    IF Len(ns) = 0 THEN AiReq("quiz", FALSE, "ok", ns, d)
    ELSE AiReq("quiz", TRUE, "sent", ns, d)

\* What Quiz renders.
QuizResults == ~quizLoading /\ quizState.showResults
QuizActive ==
    /\ ~quizLoading
    /\ ~quizState.showResults
    /\ quizState.isActive
    /\ Len(quizState.questions) > 0
QuizMenu == ~quizLoading /\ ~QuizResults /\ ~QuizActive

\* The Quiz view is shown; App's `notes` is what a visit to Notes left there.
InitQuiz ==
    /\ user = "u1"
    /\ store = SeedStore
    /\ notes \in {<<>>, RowsDesc("u1", MaxId)}
    /\ loading = FALSE
    /\ fetchError = FALSE
    /\ editingNoteId = NoId
    /\ editorTitle = ""
    /\ editorContent = ""
    /\ editorTags = <<>>
    /\ tagInput = <<>>
    /\ isSaving = FALSE
    /\ timer = NoTimer
    /\ reqs = <<>>
    /\ nextId = 4
    /\ now = 0
    /\ calls = <<>>
    /\ issued = <<>>
    /\ defused = NoTimer
    /\ userOps = 0
    /\ AuxInit

\* onClick={() => setDifficulty(level)}
SetDifficulty ==
    /\ QuizMenu
    /\ \E level \in Difficulties \ {difficulty} : difficulty' = level
    /\ UNCHANGED <<user, notes, loading, fetchError, editorVars, isSaving, timer, reqs,
                   store, nextId, now, calls, issued, defused, userOps, orphans, tagOp,
                   chunks, newsData, quizLoading, quizError, quizState, aiReqs,
                   isAiProcessing, aiLast>>

\* startQuiz up to its await
StartQuiz ==
    /\ QuizMenu
    /\ IF Len(notes) = 0
       THEN /\ quizError' = TRUE
            /\ UNCHANGED <<quizLoading, aiReqs,
                   isAiProcessing, aiLast>>
       ELSE /\ quizLoading' = TRUE
            /\ quizError' = FALSE
            /\ aiReqs' = Append(aiReqs, GenerateQuizFromNotes(notes, difficulty))
    /\ UNCHANGED <<user, notes, loading, fetchError, editorVars, isSaving, timer, reqs,
                   store, nextId, now, calls, issued, defused, userOps, orphans, tagOp,
                   chunks, newsData, difficulty, quizState,
                   isAiProcessing, aiLast>>

\* The AI service answers with text that parses to a list of questions.
AiOk ==
    /\ \E i \in 1..Len(aiReqs) :
          /\ aiReqs[i].st = "sent"
          /\ \E qs \in AiQuizzes :
                aiReqs' = [aiReqs EXCEPT ![i].st = "ok", ![i].data = qs]
    /\ UNCHANGED <<user, notes, loading, fetchError, editorVars, isSaving, timer, reqs,
                   store, nextId, now, calls, issued, defused, userOps, orphans, tagOp,
                   chunks, newsData, difficulty, quizLoading, quizError, quizState,
                   isAiProcessing, aiLast>>

\* The call fails, or the answer has no text ("Failed to generate quiz").
AiErr ==
    /\ \E i \in 1..Len(aiReqs) :
          /\ aiReqs[i].st = "sent"
          /\ aiReqs' = [aiReqs EXCEPT ![i].st = "err"]
    /\ UNCHANGED <<user, notes, loading, fetchError, editorVars, isSaving, timer, reqs,
                   store, nextId, now, calls, issued, defused, userOps, orphans, tagOp,
                   chunks, newsData, difficulty, quizLoading, quizError, quizState,
                   isAiProcessing, aiLast>>

\* startQuiz after the await, no error: setQuizState({...}); finally
DeliverQuizOk ==
    /\ \E i \in 1..Len(aiReqs) :
          /\ aiReqs[i].kind = "quiz"
          /\ aiReqs[i].st = "ok"
          /\ LET questions == AssignIds(aiReqs[i].data, now)
             IN  quizState' = [isActive |-> TRUE, score |-> 0, currentQuestionIndex |-> 0,
                               questions |-> questions, showResults |-> FALSE,
                               answers |-> [k \in 1..Len(questions) |-> Unanswered]]
          /\ aiReqs' = RemoveAt(aiReqs, i)
    /\ quizLoading' = FALSE
    /\ UNCHANGED <<user, notes, loading, fetchError, editorVars, isSaving, timer, reqs,
                   store, nextId, now, calls, issued, defused, userOps, orphans, tagOp,
                   chunks, newsData, difficulty, quizError,
                   isAiProcessing, aiLast>>

\* startQuiz after the await, error: setError(...); finally
DeliverQuizErr ==
    /\ \E i \in 1..Len(aiReqs) :
          /\ aiReqs[i].kind = "quiz"
          /\ aiReqs[i].st = "err"
          /\ aiReqs' = RemoveAt(aiReqs, i)
    /\ quizError' = TRUE
    /\ quizLoading' = FALSE
    /\ UNCHANGED <<user, notes, loading, fetchError, editorVars, isSaving, timer, reqs,
                   store, nextId, now, calls, issued, defused, userOps, orphans, tagOp,
                   chunks, newsData, difficulty, quizState,
                   isAiProcessing, aiLast>>

\* handleAnswer(optionIndex)
HandleAnswer ==
    /\ QuizActive
    /\ \E optionIndex \in Options :
          quizState' = [quizState EXCEPT
                            !.answers[quizState.currentQuestionIndex + 1] = optionIndex]
    /\ UNCHANGED <<user, notes, loading, fetchError, editorVars, isSaving, timer, reqs,
                   store, nextId, now, calls, issued, defused, userOps, orphans, tagOp,
                   chunks, newsData, difficulty, quizLoading, quizError, aiReqs,
                   isAiProcessing, aiLast>>

\* finishQuiz counting the questions that were answered.
ScoreAnswered(qs) ==
    Cardinality({k \in 1..Len(qs.questions) : qs.answers[k] # Unanswered})

\* finishQuiz: quizState.questions.forEach(... score++)
Score(qs) ==
    Cardinality({k \in 1..Len(qs.questions) :
                    qs.answers[k] = qs.questions[k].correctAnswerIndex})

\* nextQuestion behind a button that is never disabled.
NextQuestionUngated ==
    /\ QuizActive
    /\ IF quizState.currentQuestionIndex < Len(quizState.questions) - 1
       THEN quizState' = [quizState EXCEPT !.currentQuestionIndex = @ + 1]
       ELSE quizState' = [quizState EXCEPT !.showResults = TRUE,
                                           !.score = Score(quizState),
                                           !.isActive = FALSE]
    /\ UNCHANGED <<user, notes, loading, fetchError, editorVars, isSaving, timer, reqs,
                   store, nextId, now, calls, issued, defused, userOps, orphans, tagOp,
                   chunks, newsData, difficulty, quizLoading, quizError, aiReqs,
                   isAiProcessing, aiLast>>

\* nextQuestion, enabled once the current question is answered; on the last
\* question it is finishQuiz.
NextQuestion ==
    /\ QuizActive
    /\ quizState.answers[quizState.currentQuestionIndex + 1] # Unanswered
    /\ IF quizState.currentQuestionIndex < Len(quizState.questions) - 1
       THEN quizState' = [quizState EXCEPT !.currentQuestionIndex = @ + 1]
       ELSE quizState' = [quizState EXCEPT !.showResults = TRUE,
                                           !.score = Score(quizState),
                                           !.isActive = FALSE]
    /\ UNCHANGED <<user, notes, loading, fetchError, editorVars, isSaving, timer, reqs,
                   store, nextId, now, calls, issued, defused, userOps, orphans, tagOp,
                   chunks, newsData, difficulty, quizLoading, quizError, aiReqs,
                   isAiProcessing, aiLast>>

\* reset, from "Back to Menu" of the results
QuizReset ==
    /\ QuizResults
    /\ quizState' = NoQuiz
    /\ quizError' = FALSE
    /\ UNCHANGED <<user, notes, loading, fetchError, editorVars, isSaving, timer, reqs,
                   store, nextId, now, calls, issued, defused, userOps, orphans, tagOp,
                   chunks, newsData, difficulty, quizLoading, aiReqs,
                   isAiProcessing, aiLast>>

NextQuiz ==
    \/ SetDifficulty
    \/ StartQuiz
    \/ AiOk
    \/ AiErr
    \/ DeliverQuizOk
    \/ DeliverQuizErr
    \/ HandleAnswer
    \/ NextQuestion
    \/ QuizReset

SpecQuiz == InitQuiz /\ [][NextQuiz]_vars

\* ---------------------------------------------------------- AI transforms
\* The three buttons of the modal's toolbar.
Instructions == {"fix_grammar", "simplify", "expand"}

\* response.text of the service: none, or a text no user input equals.
AiTexts == {"", "y"}

\* A call of improveNote in flight: the content and the instruction it was
\* called with and, of the render that called it, the note that was open.
ImproveReq(id, content, instruction) ==
    [kind |-> "improve", st |-> "sent", id |-> id, content |-> content,
     instruction |-> instruction, data |-> ""]

\* improveNote with `return response.text`.
ImproveNoteRaw(content, text) == text

\* improveNote's result: `return response.text || content`
ImproveNote(content, text) == IF text # "" THEN text ELSE content

\* handleAiAction up to its await; `if (!editorContent.trim()) return` (no
\* content of Contents is blank without being empty).
HandleAiAction ==
    /\ UserStep
    /\ editingNoteId # NoId
    /\ editorContent # ""
    /\ Len(aiReqs) < MaxReqs
    /\ \E action \in Instructions :
          aiReqs' = Append(aiReqs, ImproveReq(editingNoteId, editorContent, action))
    /\ isAiProcessing' = TRUE
    /\ UNCHANGED <<user, notes, loading, fetchError, editorVars, isSaving, timer, reqs,
                   store, nextId, now, calls, issued, defused, orphans, tagOp, chunks,
                   newsData, difficulty, quizLoading, quizError, quizState, aiLast>>

\* The service answers a transform, with or without text.
AiTextOk ==
    /\ \E i \in 1..Len(aiReqs) :
          /\ aiReqs[i].kind = "improve"
          /\ aiReqs[i].st = "sent"
          /\ \E text \in AiTexts :
                aiReqs' = [aiReqs EXCEPT ![i].st = "ok", ![i].data = text]
    /\ UNCHANGED <<user, notes, loading, fetchError, editorVars, isSaving, timer, reqs,
                   store, nextId, now, calls, issued, defused, userOps, orphans, tagOp,
                   chunks, newsData, difficulty, quizLoading, quizError, quizState,
                   isAiProcessing, aiLast>>

\* handleAiAction after the await, no error: setEditorContent(improved);
\* finally.  A content that differs makes the save effect run again.
DeliverImproveOk ==
    /\ \E i \in 1..Len(aiReqs) :
          /\ aiReqs[i].kind = "improve"
          /\ aiReqs[i].st = "ok"
          /\ LET improved == ImproveNote(aiReqs[i].content, aiReqs[i].data)
                 b == Buf(editorTitle, improved, editorTags)
             IN  /\ editorContent' = improved
                 /\ IF improved = editorContent
                    THEN UNCHANGED <<timer, histVars>>
                    ELSE /\ timer' = SaveEffect(editingNoteId, b)
                         /\ IF editingNoteId = NoId
                            THEN UNCHANGED histVars
                            ELSE RecordCall(b)
          /\ aiReqs' = RemoveAt(aiReqs, i)
    /\ isAiProcessing' = FALSE
    /\ aiLast' = "set"
    /\ UNCHANGED <<user, notes, loading, fetchError, editingNoteId, editorTitle,
                   editorTags, tagInput, isSaving, reqs, store, nextId, now, userOps,
                   orphans, tagOp, chunks, newsData, difficulty, quizLoading, quizError,
                   quizState>>

\* handleAiAction after the await, error: alert("AI Service unavailable...");
\* finally.
DeliverImproveErr ==
    /\ \E i \in 1..Len(aiReqs) :
          /\ aiReqs[i].kind = "improve"
          /\ aiReqs[i].st = "err"
          /\ aiReqs' = RemoveAt(aiReqs, i)
    /\ isAiProcessing' = FALSE
    /\ aiLast' = "alert"
    /\ UNCHANGED <<user, notes, loading, fetchError, editorVars, isSaving, timer, reqs,
                   store, nextId, now, calls, issued, defused, userOps, orphans, tagOp,
                   chunks, newsData, difficulty, quizLoading, quizError, quizState>>

\* Notes, with the toolbar of the modal and the content field.
NextAi ==
    \/ OpenNote
    \/ CloseNote
    \/ EditContent
    \/ HandleAiAction
    \/ AiTextOk
    \/ AiErr
    \/ DeliverImproveOk
    \/ DeliverImproveErr
    \/ TimerFire
    \/ Tick
    \/ StoreOk
    \/ StoreErr
    \/ DeliverFetchOk
    \/ DeliverFetchErr
    \/ DeliverSaveOk
    \/ DeliverSaveErr

SpecAi == Init /\ [][NextAi]_vars

\* =================================================================== claims
\* Steps, told by what they do to the requests in flight.
\* The continuation of request i, of the given kind and answer, runs.
Completes(i, kind, st) == Answered(i, kind, st) /\ reqs' = RemoveAt(reqs, i)

\* A handler issues a request of the given kind.
Issues(kind) ==
    /\ Len(reqs') = Len(reqs) + 1
    /\ SubSeq(reqs', 1, Len(reqs)) = reqs
    /\ reqs'[Len(reqs')].kind = kind
    /\ reqs'[Len(reqs')].st = "sent"

\* Every note of ns other than id is in ms, with the same fields, and ms has
\* no note besides those (and possibly id).
OthersSame(ns, ms, id) ==
    {n \in Range(ns) : n.id # id} = {n \in Range(ms) : n.id # id}

\* ---- the debounce scheduler (C1, C2)
Gap(i) == calls[i].at - calls[i - 1].at
LastCall == calls[Len(calls)]

\* The update the scheduler owes for the call c: Debounce after it, carrying
\* the open note's id and the buffer as the call left it.
UpdateFor(c) == [at |-> c.at + Debounce, id |-> editingNoteId, buf |-> c.buf]

\* The calls of the session so far, each less than Debounce after the previous.
Burst == calls # <<>> /\ \A i \in 2..Len(calls) : Gap(i) < Debounce

\* C1: for a sequence of EditField calls on the open note, each less than the
\* debounce interval after the previous one, no update is issued before the
\* interval has passed since the last call, exactly one is issued once it has
\* passed, and that one carries the buffer as the last call left it.
C1_OneUpdatePerBurst ==
    (editingNoteId # NoId /\ Burst) =>
        /\ Len(issued) <= 1
        /\ now < LastCall.at + Debounce => issued = <<>>
        /\ now > LastCall.at + Debounce => Len(issued) = 1
        /\ issued # <<>> => issued[1] = UpdateFor(LastCall)
        /\ LastCall.buf = CurBuf

\* Two calls half an interval apart, then the one update.
C1_Witness ==
    /\ Len(calls) >= 2
    /\ Burst
    /\ Gap(2) > 0
    /\ calls[1].buf # calls[2].buf
    /\ Len(issued) = 1

\* No two calls exactly Debounce apart (the case the claims leave open).
Regular == \A i \in 2..Len(calls) : Gap(i) # Debounce

\* Call i is the last of its group.
EndsGroup(i) == i = Len(calls) \/ Gap(i + 1) > Debounce

RECURSIVE GroupEndsFrom(_)
\* The last calls of the groups, from call i on, in order.
GroupEndsFrom(i) ==
    IF i > Len(calls) THEN <<>>
    ELSE IF EndsGroup(i) THEN <<calls[i]>> \o GroupEndsFrom(i + 1)
         ELSE GroupEndsFrom(i + 1)

GroupEnds == GroupEndsFrom(1)

\* C2: when the calls of a session fall into groups separated by gaps longer
\* than the debounce interval, one update is issued per group, Debounce after
\* the group's last call, carrying the buffer as that call left it.
C2_OneUpdatePerGroup ==
    (editingNoteId # NoId /\ calls # <<>> /\ Regular) =>
        /\ Len(issued) <= Len(GroupEnds)
        /\ Len(issued) >= Len(GroupEnds) - 1
        /\ now < LastCall.at + Debounce => Len(issued) = Len(GroupEnds) - 1
        /\ now > LastCall.at + Debounce => Len(issued) = Len(GroupEnds)
        /\ \A k \in 1..Len(issued) : issued[k] = UpdateFor(GroupEnds[k])

\* Two groups, two updates, with different buffers.
C2_Witness ==
    /\ calls # <<>>
    /\ Regular
    /\ Len(GroupEnds) = 2
    /\ Len(issued) = 2
    /\ issued[1].buf # issued[2].buf

\* ---- the end of an edit session (C3)
\* The timeout pending, if any, is the one of the open note and holds the
\* buffer as it is.
TimerOfSession ==
    timer.on => /\ editingNoteId # NoId
                /\ timer.id = editingNoteId
                /\ timer.buf = CurBuf

\* C3: when the edit session on a note ends (closeNote, or another note is
\* opened) the pending timeout is cleared: nothing stays pending for the
\* note that was open; a timeout pending afterwards was set at that moment
\* for the newly opened note with that note's buffer; and every update issued
\* carries the id and the buffer of the session open when it is issued.
C3_TimerDefused ==
    /\ []TimerOfSession
    /\ [][(editingNoteId # NoId /\ editingNoteId' # editingNoteId) =>
            IF editingNoteId' = NoId
            THEN ~timer'.on
            ELSE timer' = [on |-> TRUE, id |-> editingNoteId',
                           buf |-> Buf(editorTitle', editorContent', editorTags'),
                           due |-> now + Debounce]]_vars
    /\ [][Issues("save") =>
            /\ reqs'[Len(reqs')].id = editingNoteId
            /\ reqs'[Len(reqs')].buf = CurBuf
            /\ ~timer'.on]_vars

\* Note 1 was open with edits pending when another note was opened; the
\* update of the other note is in flight, none of note 1 is, and the store
\* still has note 1 as seeded.
C3_Witness ==
    /\ defused.on
    /\ defused.id = 1
    /\ defused.buf.title # "G"
    /\ editingNoteId \notin {NoId, 1}
    /\ \E i \in 1..Len(reqs) : reqs[i].kind = "save" /\ reqs[i].id = editingNoteId
    /\ \A i \in 1..Len(reqs) : reqs[i].kind = "save" => reqs[i].id # 1
    /\ store[1] = SeedStore[1]
\* ---- the favorite toggle (C4, C5)
\* C4: a toggle of a note that is not favorite shows it favorite in the
\* local collection at once; when the store's update fails the note is back
\* to not favorite, and every other note is present or absent, and has the
\* fields, it had just before the revert.
C4_RevertTouchesOnlyItsNote ==
    [][/\ (Issues("toggle") /\ reqs'[Len(reqs')].val) =>
             /\ InNotes(notes', reqs'[Len(reqs')].id)
             /\ Find(notes', reqs'[Len(reqs')].id).isFavorite
       /\ \A i \in 1..Len(reqs) :
             (Completes(i, "toggle", "err") /\ reqs[i].val) =>
                 /\ InNotes(notes', reqs[i].id)
                 /\ ~Find(notes', reqs[i].id).isFavorite
                 /\ OthersSame(notes, notes', reqs[i].id)]_vars

\* The session in which the user only toggles favorites.
NextToggles ==
    \/ ToggleFavorite
    \/ StoreOk
    \/ StoreErr
    \/ DeliverFetchOk
    \/ DeliverFetchErr
    \/ DeliverToggleOk
    \/ DeliverToggleErr

SpecToggles == Init /\ [][NextToggles]_vars

TogglesInFlight(id) ==
    {i \in 1..Len(reqs) : reqs[i].kind = "toggle" /\ reqs[i].id = id}

\* C5: once the answers to all toggles of a note have arrived, the note's
\* isFavorite in the local collection is the is_favorite the store holds.
C5_FavoriteAgreesWithStore ==
    \A id \in Ids :
        (InNotes(notes, id) /\ HasRow(id) /\ TogglesInFlight(id) = {}) =>
            Find(notes, id).isFavorite = store[id].is_favorite

\* ---- delete (C6, C7, C8)
\* The store answers request i of the given kind.
StoreAnswers(kind) ==
    \E i \in 1..Len(reqs) :
        /\ reqs[i].kind = kind
        /\ reqs[i].st = "sent"
        /\ Len(reqs') = Len(reqs)
        /\ reqs'[i].st # "sent"

LocalState == <<notes, editingNoteId, editorTitle, editorContent, editorTags, timer>>

\* C6: a delete whose store call fails leaves the local collection and the
\* edit session (open note, buffer, pending timeout) as they were; nor does
\* issuing the delete, or the store answering it, change them.
C6_FailedDeleteChangesNothing ==
    [][(\/ Issues("delete")
        \/ StoreAnswers("delete")
        \/ \E i \in 1..Len(reqs) : Completes(i, "delete", "err"))
       => UNCHANGED LocalState]_vars

\* The store has refused to delete the note that is open, with a timeout
\* pending.
C6_Witness ==
    \E i \in 1..Len(reqs) :
        /\ Answered(i, "delete", "err")
        /\ editingNoteId = reqs[i].id
        /\ timer.on
        /\ InNotes(notes, reqs[i].id)

\* C7: a delete that succeeds removes the note with that id and nothing
\* else: every other note of the collection is still there, unchanged.
C7_DeleteRemovesExactlyOne ==
    [][\A i \in 1..Len(reqs) :
          Completes(i, "delete", "ok") =>
              /\ ~InNotes(notes', reqs[i].id)
              /\ OthersSame(notes, notes', reqs[i].id)]_vars

\* C8: after a delete of a note succeeds, the edit session is not open on it.
C8_DeleteClosesSession ==
    [][\A i \in 1..Len(reqs) :
          Completes(i, "delete", "ok") => editingNoteId' # reqs[i].id]_vars

\* ---- create (C9, C10)
\* C9: when a create succeeds, the new empty note is first in the local
\* collection, the notes that were there follow it unchanged, and the new
\* note is open for edit with an empty buffer.
C9_CreatePrepends ==
    [][\A i \in 1..Len(reqs) :
          Completes(i, "create", "ok") =>
              LET n == reqs[i].data[1]
              IN  /\ n = Note(n.id, "", "", <<>>, FALSE, n.lastModified)
                  /\ notes' = <<n>> \o notes
                  /\ editingNoteId' = n.id
                  /\ Buf(editorTitle', editorContent', editorTags') = EmptyBuf]_vars

\* C10: a create that fails leaves the local collection, the edit buffer and
\* the open note as they were; nor does issuing the create, or the store
\* answering it, change them: a note enters the collection only when the
\* continuation of a create runs with the row returned.
C10_FailedCreateChangesNothing ==
    [][(\/ Issues("create")
        \/ StoreAnswers("create")
        \/ \E i \in 1..Len(reqs) : Completes(i, "create", "err"))
       => UNCHANGED LocalState]_vars

\* The store has refused a create while a note is open with a timeout pending.
C10_Witness ==
    \E i \in 1..Len(reqs) :
        /\ Answered(i, "create", "err")
        /\ notes # <<>>
        /\ editingNoteId # NoId
        /\ timer.on

\* ---- completions after a delete (C11)
\* The delete of the note has been carried out by the store and its
\* continuation has run: the note is in neither the table nor the collection.
DeleteDone(id) ==
    /\ id < nextId
    /\ ~HasRow(id)
    /\ ~InNotes(notes, id)
    /\ \A i \in 1..Len(reqs) : ~(reqs[i].kind = "delete" /\ reqs[i].id = id)

\* The continuation of request i runs, whatever the answer.
Completion(i) == reqs[i].st # "sent" /\ reqs' = RemoveAt(reqs, i)

\* C11: once the delete of a note has succeeded and removed it from the local
\* collection, the completion of an update or a favorite toggle of that note,
\* or of a create, does not put a note with that id back into the collection.
C11_DeleteIsTerminal ==
    [][\A id \in Ids : \A i \in 1..Len(reqs) :
          (/\ DeleteDone(id)
           /\ Completion(i)
           /\ \/ reqs[i].kind \in {"save", "toggle"} /\ reqs[i].id = id
              \/ reqs[i].kind = "create")
          => ~InNotes(notes', id)]_vars

\* ---- updates in flight (C13, C14, C15, C16)
SavesInFlight(id) == {i \in 1..Len(reqs) : reqs[i].kind = "save" /\ reqs[i].id = id}

\* C13: at most one update of a given note is in flight (issued, its response
\* not yet received) at any time.
C13_OneUpdateInFlight ==
    \A id \in Ids : Cardinality(SavesInFlight(id)) <= 1

\* C14: when an update succeeds, the entry of the collection with the id
\* written gets the title, content and tags the update carried and the
\* current time as lastModified; every other entry, and the order, stay; and
\* so it is whether or not that note is still the one open.
C14_SaveReconcilesById ==
    [][\A i \in 1..Len(reqs) :
          Completes(i, "save", "ok") =>
              /\ Len(notes') = Len(notes)
              /\ \A k \in 1..Len(notes) :
                    IF notes[k].id = reqs[i].id
                    THEN /\ notes'[k].id = notes[k].id
                         /\ notes'[k].isFavorite = notes[k].isFavorite
                         /\ Buf(notes'[k].title, notes'[k].content, notes'[k].tags) = reqs[i].buf
                         /\ notes'[k].lastModified = now
                         /\ notes'[k].lastModified >= notes[k].lastModified
                    ELSE notes'[k] = notes[k]]_vars

\* The update of note 1 was reconciled after another note was opened: the
\* collection and the table have the title typed, no update is in flight.
C14_Witness ==
    /\ editingNoteId \notin {NoId, 1}
    /\ InNotes(notes, 1)
    /\ Find(notes, 1).title = "GD"
    /\ Find(notes, 1).lastModified > 0
    /\ store[1].title = "GD"
    /\ SavesInFlight(1) = {}

\* C15: when an update fails, the local collection is not modified and the
\* edit buffer (and the note open) stay as the user left them.
C15_FailedSaveChangesNothing ==
    [][\A i \in 1..Len(reqs) :
          Completes(i, "save", "err") => UNCHANGED <<notes, editorVars>>]_vars

\* The update of the open note, carrying an edit, has failed and nothing is
\* pending: the buffer differs from the collection, which is as fetched.
C15_Witness ==
    /\ editingNoteId = 1
    /\ calls # <<>>
    /\ ~timer.on
    /\ SavesInFlight(1) = {}
    /\ InNotes(notes, 1)
    /\ editorTitle # Find(notes, 1).title
    /\ Find(notes, 1).lastModified = 0
    /\ store[1] = SeedStore[1]

\* C16: the lastModified of a note of the local collection never decreases
\* while the note stays in the collection.
C16_LastModifiedMonotone ==
    [][\A id \in Ids :
          (InNotes(notes, id) /\ InNotes(notes', id)) =>
              Find(notes', id).lastModified >= Find(notes, id).lastModified]_vars

\* ---- ownership (C12)
\* C12: while a user is signed in, every note of the local collection is a
\* row of the table owned by that user.
C12_NotesAreTheUsersOwn ==
    user # NoUser =>
        \A k \in 1..Len(notes) : HasRow(notes[k].id) /\ store[notes[k].id].user_id = user

\* ---- the tag list (C17, C18)
NoDuplicates(l) == \A i, j \in 1..Len(l) : l[i] = l[j] => i = j

\* Position of a value in a list without duplicates.
Pos(l, v) == CHOOSE i \in 1..Len(l) : l[i] = v

\* C17: starting from a tag list without duplicates, after any sequence of
\* add-tag and remove-tag operations the list has no two equal strings; an add
\* keeps the list as it was as a prefix and appends at most one tag, the
\* trimmed input, and none when that is empty or already in the list.
C17_TagsStayUnique ==
    /\ NoDuplicates(editorTags)
    /\ tagOp.kind = "add" =>
          LET val == Trim(tagOp.arg)
              old == tagOp.before
          IN  /\ Len(editorTags) >= Len(old)
              /\ SubSeq(editorTags, 1, Len(old)) = old
              /\ Len(editorTags) <= Len(old) + 1
              /\ Len(editorTags) = Len(old) + 1 <=> (val # <<>> /\ val \notin Range(old))
              /\ Len(editorTags) = Len(old) + 1 => editorTags[Len(editorTags)] = val

\* " s" was entered into a list of two tags that has "s": nothing was added.
C17_Witness ==
    /\ tagOp.kind = "add"
    /\ tagOp.arg = <<" ", "s">>
    /\ <<"s">> \in Range(tagOp.before)
    /\ Len(tagOp.before) = 2
    /\ editorTags = tagOp.before

\* C18: removing a tag that is not in the list leaves the list as it is;
\* removing one that is there removes that value and nothing else, and the
\* others keep their relative order.
C18_RemoveTagExact ==
    tagOp.kind = "remove" =>
        LET old == tagOp.before
        IN  IF tagOp.arg \notin Range(old)
            THEN editorTags = old
            ELSE /\ Range(editorTags) = Range(old) \ {tagOp.arg}
                 /\ Len(editorTags) = Len(old) - 1
                 /\ \A a, b \in Range(editorTags) :
                       Pos(editorTags, a) < Pos(editorTags, b) <=> Pos(old, a) < Pos(old, b)

\* The middle one of three tags was removed.
C18_Witness ==
    /\ tagOp.kind = "remove"
    /\ Len(tagOp.before) = 3
    /\ tagOp.before[2] = tagOp.arg
    /\ editorTags = <<tagOp.before[1], tagOp.before[3]>>

\* ---- citations (C19)
RECURSIVE FirstByUri(_, _)
\* The entries of raw whose uri is not in seen and not earlier in raw.
FirstByUri(raw, seen) ==
    IF raw = <<>> THEN <<>>
    ELSE IF Head(raw).uri \in seen THEN FirstByUri(Tail(raw), seen)
         ELSE <<Head(raw)>> \o FirstByUri(Tail(raw), seen \cup {Head(raw).uri})

\* C19: the citation list returned keeps, for every uri, the first entry of
\* the input with that uri, in the input's order; for [{A, uri1}, {B, uri1},
\* {C, uri2}] it is [{A, uri1}, {C, uri2}].
C19_FirstCitationWins ==
    newsData.loaded =>
        /\ newsData.sources = FirstByUri(RawSources(chunks), {})
        /\ chunks = <<[title |-> "A", uri |-> "uri1"], [title |-> "B", uri |-> "uri1"],
                      [title |-> "C", uri |-> "uri2"]>>
              => newsData.sources = <<[title |-> "A", uri |-> "uri1"],
                                      [title |-> "C", uri |-> "uri2"]>>

\* ---- quiz generation without notes (C20)
\* C20: generating a quiz when the note collection is empty sends no request
\* to the AI service, yields an empty question list, and is not reported as
\* an error.
C20_EmptyQuizIsSuccess ==
    [][(StartQuiz /\ Len(notes) = 0) =>
           /\ \A i \in 1..Len(aiReqs') : ~aiReqs'[i].sent
           /\ quizState'.questions = <<>>
           /\ ~quizError']_vars

\* ---- question identifiers (C21)
\* The continuation of the quiz request i runs with the service's questions.
QuizDelivered(i) ==
    /\ aiReqs[i].kind = "quiz"
    /\ aiReqs[i].st = "ok"
    /\ aiReqs' = RemoveAt(aiReqs, i)

\* C21: the questions of one quiz generation have pairwise distinct
\* identifiers, whatever ids the model returned (equal or missing ones
\* included), and they are the returned questions, in the returned order, with
\* every other field as returned.
C21_ClientIdsUnique ==
    /\ [](\A i, j \in 1..Len(quizState.questions) :
             i # j => quizState.questions[i].id # quizState.questions[j].id)
    /\ [][\A i \in 1..Len(aiReqs) :
             QuizDelivered(i) =>
                 /\ Len(quizState'.questions) = Len(aiReqs[i].data)
                 /\ \A k \in 1..Len(aiReqs[i].data) :
                       [quizState'.questions[k] EXCEPT !.id = aiReqs[i].data[k].id]
                           = aiReqs[i].data[k]]_vars

\* A quiz of two different questions.
C21_Witness ==
    /\ quizState.isActive
    /\ Len(quizState.questions) = 2
    /\ quizState.questions[1].correctAnswerIndex = 3
    /\ quizState.questions[2].correctAnswerIndex = 0

\* ---- AI transforms (C22, C26)
\* The continuation of the transform i runs with the service's answer.
ImproveDelivered(i) ==
    /\ aiReqs[i].kind = "improve"
    /\ aiReqs[i].st = "ok"
    /\ aiReqs' = RemoveAt(aiReqs, i)

\* C22: a transform whose response has no text gives back its input text and
\* raises no error: the buffer's content after it is the text the transform
\* was asked for, so a buffer that still held that text is left as it was.
C22_EmptyTextKeepsContent ==
    [][\A i \in 1..Len(aiReqs) :
          (ImproveDelivered(i) /\ aiReqs[i].data = "") =>
              /\ editorContent' = aiReqs[i].content
              /\ aiLast' # "alert"
              /\ editorContent = aiReqs[i].content => UNCHANGED editorContent]_vars

\* A transform has ended without an alert on a note that was never edited and
\* whose buffer still holds the note's own content.
C22_Witness ==
    /\ aiLast = "set"
    /\ aiReqs = <<>>
    /\ editingNoteId # NoId
    /\ calls = <<>>
    /\ editorContent = "x"

\* C26: the result of a transform goes only into the buffer of the note that
\* was open when it was requested: when that note is no longer the open one,
\* the buffer's content is left alone (and so nothing of the result can be
\* saved under another note's id).
C26_ResultStaysWithItsNote ==
    [][\A i \in 1..Len(aiReqs) :
          (ImproveDelivered(i) /\ editingNoteId # aiReqs[i].id) =>
              UNCHANGED editorContent]_vars

\* ---- a failed list (C23)
\* C23: when List fails (its continuation runs in the mounted view, the user
\* still signed in), the error indicator is set and offers a retry, the
\* loading flag is back to false, the local collection is what it was, and
\* the "no notes yet" empty state is not shown.
C23_FailedListIsReported ==
    [][\A i \in 1..Len(reqs) :
          (Completes(i, "fetch", "err") /\ UNCHANGED user) =>
              /\ fetchError'
              /\ RetryOffered'
              /\ ~loading'
              /\ notes' = notes
              /\ ~EmptyStateShown']_vars

\* The list has failed and the collection is empty.
C23_Witness ==
    /\ Mounted
    /\ fetchError
    /\ ~loading
    /\ notes = <<>>
    /\ \A i \in 1..Len(reqs) : reqs[i].kind # "fetch"

\* ---- the save indicator (C24)
\* An update that carried an edit of this session has been issued for the
\* note, none is in flight and none has ever reached the table: the most
\* recent update of the note failed.
UpdateFailed(id) ==
    /\ issued # <<>>
    /\ SavesInFlight(id) = {}
    /\ store[id] = SeedStore[id]

\* C24: the save indicator shows saving whenever an update of the open note
\* is in flight, and does not show the saved state when the most recent
\* update failed and the collection still differs from the buffer.
C24_IndicatorFollowsSaves ==
    editingNoteId # NoId =>
        /\ SavesInFlight(editingNoteId) # {} => ShowsSaving
        /\ ( /\ UpdateFailed(editingNoteId)
             /\ InNotes(notes, editingNoteId)
             /\ LET n == Find(notes, editingNoteId)
                IN  Buf(n.title, n.content, n.tags) # CurBuf ) => ~ShowsSaved

\* ---- created notes (C25)
\* The note was made by a Create of this run.
Created(id) == SeedStore[id] = NoRow

\* C25: a note whose Create succeeded stays in the local collection until a
\* Delete of it succeeds (or the user signs out): no other step drops it.
C25_CreatedNoteStays ==
    [][\A id \in Ids :
          (/\ Created(id)
           /\ InNotes(notes, id)
           /\ Mounted'
           /\ ~\E i \in 1..Len(reqs) :
                  Completes(i, "delete", "ok") /\ reqs[i].id = id)
          => InNotes(notes', id)]_vars

\* ---- updates and edits (C27, C28)
\* C27: an update of a note is issued only after at least one EditField call
\* since the note was opened, and the lastModified of the open note in the
\* collection changes only after such a call: a note opened and left alone
\* gets no update.
C27_NoUpdateWithoutEdit ==
    [][/\ Issues("save") => calls # <<>>
       /\ (/\ editingNoteId # NoId
           /\ editingNoteId' = editingNoteId
           /\ calls' = <<>>
           /\ InNotes(notes, editingNoteId)
           /\ InNotes(notes', editingNoteId))
          => Find(notes', editingNoteId).lastModified
                 = Find(notes, editingNoteId).lastModified]_vars

\* The most recent update of the open note that carried an edit.
LastIssued == issued[Len(issued)]

\* C28: once every update issued for a note has completed successfully, the
\* note's title, content and tags in the collection are those of the most
\* recently issued update, in whatever order the responses came.  (Stated
\* for the open note, under a store that does not fail.)
C28_LatestUpdateWins ==
    (/\ editingNoteId # NoId
     /\ issued # <<>>
     /\ SavesInFlight(editingNoteId) = {}
     /\ InNotes(notes, editingNoteId))
    => LET n == Find(notes, editingNoteId)
       IN  Buf(n.title, n.content, n.tags) = LastIssued.buf

\* ---- the quiz session (C29, C30)
\* The number of questions among the first k whose selected option is the
\* correct one.
RECURSIVE CorrectUpTo(_)
CorrectUpTo(k) ==
    IF k = 0 THEN 0
    ELSE CorrectUpTo(k - 1)
         + (IF quizState.answers[k] = quizState.questions[k].correctAnswerIndex
            THEN 1 ELSE 0)

\* C29: when a quiz session has finished, its score is the number of
\* questions whose selected answer is the correct option, between 0 and the
\* number of questions; until then the score is 0.
C29_ScoreCountsCorrect ==
    IF quizState.showResults
    THEN /\ quizState.score = CorrectUpTo(Len(quizState.questions))
         /\ 0 <= quizState.score
         /\ quizState.score <= Len(quizState.questions)
    ELSE quizState.score = 0

\* A finished quiz of two questions, one answered right and one wrong.
C29_Witness ==
    /\ quizState.showResults
    /\ Len(quizState.questions) = 2
    /\ quizState.score = 1
    /\ quizState.answers[2] # quizState.questions[2].correctAnswerIndex

\* C30: the active and the results phase are never both set; there are as
\* many answers as questions; the current index is below the number of
\* questions while the quiz is active with questions; the session advances
\* or finishes only from an answered question; and the results are reached
\* only with a non-empty list of questions that are all answered.
C30_QuizStateIsCoherent ==
    /\ [](/\ ~(quizState.isActive /\ quizState.showResults)
          /\ Len(quizState.answers) = Len(quizState.questions)
          /\ (quizState.isActive /\ Len(quizState.questions) > 0)
                => quizState.currentQuestionIndex < Len(quizState.questions)
          /\ quizState.showResults
                => /\ Len(quizState.questions) > 0
                   /\ \A k \in 1..Len(quizState.questions) :
                         quizState.answers[k] # Unanswered)
    /\ [][(\/ quizState'.currentQuestionIndex > quizState.currentQuestionIndex
           \/ quizState'.showResults /\ ~quizState.showResults)
          => quizState.answers[quizState.currentQuestionIndex + 1] # Unanswered]_vars

\* The results of a quiz of two questions, reached through the second.
C30_Witness ==
    /\ quizState.showResults
    /\ ~quizState.isActive
    /\ Len(quizState.questions) = 2
    /\ quizState.currentQuestionIndex = 1

==============================================================================
